---- MODULE Spec2Model ----
(***************************************************************************)
(* The Zeldar oracle HTTP component (oracle-component/oracle/src/lib.rs):  *)
(* metric derivation from the external state file or the simulation        *)
(* formula, haiku and mechanism selection, and the fortune request that    *)
(* strings them together while an external producer owns the state file.   *)
(*                                                                         *)
(* f64 values are exact fixed-point numbers: an integer count of units of  *)
(* 1/One.  Every input number is a whole number of thousandths, so that    *)
(* /10, /3, *0.1 and *0.05 are exact in these units.  u64 values are four  *)
(* 16-bit limbs, least significant first, so that the narrowing cast to    *)
(* u32 keeps its width.                                                    *)
(***************************************************************************)
EXTENDS Integers, Sequences, FiniteSets, TLC

VARIABLES
    file,          \* content of ../.topos/current_loop_state.json
    scripts,       \* which of the three .topos scripts exist
    time_factor,   \* |sin(get_current_timestamp() / 1000)|, in units
    pc,            \* position of the request being served
    handler,       \* endpoint the request was routed to
    status,        \* HTTP status of the response (0 while in progress)
    metrics,       \* local of the handler: the InformationForceMetrics
    branch,        \* which branch of calculate_metrics produced metrics
    clock_read,    \* whether calculate_metrics called get_current_timestamp
    mContent,      \* file content calculate_metrics read
    tri_loop,      \* local of the handler: the TriLoopStatus
    haiku,         \* local of the handler: the haiku lines
    haiku_source,  \* which return of the haiku code produced haiku
    hContent,      \* file content generate_haiku read
    hIndex,        \* index computed into the haiku table
    mechanism,     \* local of the handler: the mechanism label
    mIndex,        \* index computed into the mechanism table
    prev           \* the previous request's metric derivation and label

vars == <<file, scripts, time_factor, pc, handler, status, metrics, branch,
          clock_read, mContent, tri_loop, haiku, haiku_source, hContent,
          hIndex, mechanism, mIndex, prev>>

----------------------------------------------------------------------------
(* Bounds of the model *)

MaxHaikuLen == 4      \* longest haiku_content, in characters
TimeSteps == 10       \* the time factor ranges over 0, 1/TimeSteps, ..., 1
SelSpan == 8          \* selector inputs range over -SelSpan/8 .. (SelSpan+16)/8

----------------------------------------------------------------------------
(* f64 as fixed point *)

One == 60000
Milli(m) == m * (One \div 1000)

\* `x as usize` / `x as u32` on an f64: truncates toward zero, negative
\* values saturate to 0 (the upper saturation is beyond every value here)
F64AsUInt(x) == IF x < 0 THEN 0 ELSE x \div One

F64Min(x, y) == IF x < y THEN x ELSE y

----------------------------------------------------------------------------
(* u64 as 16-bit limbs *)

LimbBase == 65536

U64(n) == <<n, 0, 0, 0>>

\* `v as u32` on a u64: the low 32 bits
U64AsU32(v) == SubSeq(v, 1, 2)

\* v % m for a small m, by Horner's rule from the most significant limb
RECURSIVE LimbsMod(_, _)
LimbsMod(v, m) ==
    IF v = <<>> THEN 0
    ELSE ((LimbsMod(Tail(v), m) * (LimbBase % m)) + (Head(v) % m)) % m

\* the value of a u64 whose upper three limbs are zero
LimbsToNat(v) == v[1]

----------------------------------------------------------------------------
(* serde_json::Value *)

JNull == [t |-> "null", f |-> 0, u |-> <<>>, s |-> <<>>]
JFloat(m) == [t |-> "float", f |-> Milli(m), u |-> <<>>, s |-> <<>>]
JNegInt(n) == [t |-> "negint", f |-> n, u |-> <<>>, s |-> <<>>]
JUInt(v) == [t |-> "uint", f |-> 0, u |-> v, s |-> <<>>]
JString(str) == [t |-> "string", f |-> 0, u |-> <<>>, s |-> str]

None == [some |-> FALSE, val |-> 0]
Some(x) == [some |-> TRUE, val |-> x]
UnwrapOr(opt, d) == IF opt.some THEN opt.val ELSE d

\* Value::as_f64: any JSON number, converted to f64
AsF64(v) ==
    CASE v.t = "float" -> Some(v.f)
      [] v.t = "negint" -> Some(v.f * One)
      [] v.t = "uint" -> Some(LimbsToNat(v.u) * One)
      [] OTHER -> None

\* Value::as_u64: only a non-negative integer
AsU64(v) == IF v.t = "uint" THEN [some |-> TRUE, val |-> v.u]
            ELSE [some |-> FALSE, val |-> U64(0)]

\* Value::as_str: only a string
AsStr(v) == IF v.t = "string" THEN [some |-> TRUE, val |-> v.s]
            ELSE [some |-> FALSE, val |-> <<>>]

NoFields == [phi |-> JNull, quantum_entropy |-> JNull,
             loop_iteration |-> JNull, haiku_content |-> JNull]

\* A file: kind is "missing", "unreadable" or "text"; root is the kind of
\* JSON value its text holds ("invalid" when the text is not JSON).
MissingFile == [kind |-> "missing", root |-> "none", fields |-> NoFields]
UnreadableFile == [kind |-> "unreadable", root |-> "none", fields |-> NoFields]
Text(root) == [kind |-> "text", root |-> root, fields |-> NoFields]
Object(phi, qe, loop, hk) ==
    [kind |-> "text", root |-> "object",
     fields |-> [phi |-> phi, quantum_entropy |-> qe,
                 loop_iteration |-> loop, haiku_content |-> hk]]

\* fs::read_to_string(..).is_ok()
ReadToStringOk(content) == content.kind = "text"

\* a parse that never fails: text that is not JSON read as Null
FromStrLenient(content) == content.kind = "text"

\* serde_json::from_str::<Value>(&content).is_ok()
FromStrOk(content) == ReadToStringOk(content) /\ content.root # "invalid"

\* state["key"]: Null unless state is an object that has the key
Index(content, key) ==
    IF content.root = "object" THEN content.fields[key] ELSE JNull

----------------------------------------------------------------------------
(* calculate_metrics *)

DefaultPhi == Milli(3252)
DefaultEntropy == Milli(926)
DefaultLoopIteration == U64(1)
SnapshotCorrelation == Milli(980)

Metrics(sc, loops, hc, gap, corr, exceeded) ==
    [semantic_closure |-> sc, strange_loops |-> loops,
     hofstadter_coefficient |-> hc, spectral_gap |-> gap,
     correlation_strength |-> corr, threshold_exceeded |-> exceeded]

NoMetrics == Metrics(0, 0, 0, 0, 0, FALSE)

\* the branch of the match that returns: the early return needs both the
\* read and the parse to succeed; a parse failure falls through silently
MetricsBranch(content) == IF FromStrOk(content) THEN "snapshot" ELSE "fallback"

\* the time factor computed ahead of the match
TimeSourceAlways(content) == TRUE

\* get_current_timestamp is called on line 259 only, after the match
TimeSourceConsulted(content) == MetricsBranch(content) = "fallback"

\* `(loop_iteration % 5) + 3` on the u32 obtained by `as u32`
StrangeLoops(loop_iteration) == LimbsMod(U64AsU32(loop_iteration), 5) + 3

\* `>=` for `>`
ThresholdReached(phi) == phi >= One

\* `information-dynamics_phi > 1.0`
ThresholdExceeded(phi) == phi > One

SnapshotMetrics(state) ==
    LET phi == UnwrapOr(AsF64(Index(state, "phi")), DefaultPhi)
        quantum_entropy ==
            UnwrapOr(AsF64(Index(state, "quantum_entropy")), DefaultEntropy)
        loop_iteration ==
            UnwrapOr(AsU64(Index(state, "loop_iteration")), DefaultLoopIteration)
        semantic_closure == (phi \div 10) + Milli(600)
        hofstadter_coefficient == phi \div 3
        spectral_gap == quantum_entropy * 10
    IN  Metrics(F64Min(semantic_closure, One),
                StrangeLoops(loop_iteration),
                hofstadter_coefficient,
                spectral_gap,
                SnapshotCorrelation,
                ThresholdExceeded(phi))

\* the snapshot branch's `% 5` in the fallback's strange_loops
FallbackMetricsMod5(t) ==
    LET semantic_closure == Milli(885) + (t \div 10)
    IN  Metrics(semantic_closure, 3 + (F64AsUInt(t * 10) % 5),
                Milli(1020) + (t \div 10), Milli(5260) + (t * 2),
                Milli(950) + (t \div 20), semantic_closure > Milli(800))

FallbackMetrics(t) ==
    LET semantic_closure == Milli(885) + (t \div 10)
        strange_loops == 3 + (F64AsUInt(t * 10) % 3)
        hofstadter_coefficient == Milli(1020) + (t \div 10)
        spectral_gap == Milli(5260) + (t * 2)
        correlation_strength == Milli(950) + (t \div 20)
    IN  Metrics(semantic_closure, strange_loops, hofstadter_coefficient,
                spectral_gap, correlation_strength,
                semantic_closure > Milli(800))

CalculateMetrics(content, t) ==
    IF MetricsBranch(content) = "snapshot" THEN SnapshotMetrics(content)
    ELSE FallbackMetrics(t)

----------------------------------------------------------------------------
(* generate_haiku, generate_standard_haiku, select_generation_mechanism *)

\* The two-character sequence backslash, n is one atom of a string; "LF" is
\* a line feed character, which the split pattern does not match.
Sep == "BACKSLASH_N"
Chars == {"a", "LF", Sep}

\* str::split(pattern): the pieces between the separators, empty ones kept
RECURSIVE Split(_)
Split(str) ==
    IF \A i \in 1..Len(str) : str[i] # Sep THEN <<str>>
    ELSE LET i == CHOOSE k \in 1..Len(str) :
                      str[k] = Sep /\ \A j \in 1..(k - 1) : str[j] # Sep
         IN  <<SubSeq(str, 1, i - 1)>> \o Split(SubSeq(str, i + 1, Len(str)))

\* a line of a table is one string
Line(text) == <<text>>

HaikuTable ==
    << <<Line("Hidden paths reveal"),
         Line("What seems impossible unfolds"),
         Line("Magic lives in doubt")>>,
       <<Line("Loops correlate through"),
         Line("Mathematical information-dynamics"),
         Line("Desert sand transforms")>>,
       <<Line("Category maps fold,"),
         Line("Strange loops embrace paradox"),
         Line("Awareness emerges")>>,
       <<Line("Three systems dancing,"),
         Line("Correlation weaves meaning"),
         Line("InformationForce blooms bright")>> >>

StandardHaiku ==
    <<Line("Quantum paths unfold,"),
      Line("Mathematical beauty waits"),
      Line("InformationForce near")>>

Mechanisms ==
    <<"tri-loop correlation matrix convergence",
      "semantic closure boundary optimization",
      "hofstadter coefficient recursive analysis",
      "expander graph spectral gap resonance",
      "strange loop paradox resolution synthesis">>

Panic == <<Line("index out of bounds")>>

\* the index without its `% len`
TableIndexNoWrap(x, len) == F64AsUInt(x * len)

\* `(x * len as f64) as usize % len`
TableIndex(x, len) == F64AsUInt(x * len) % len

\* the haiku_content lines the file supplies, when it supplies a string
SnapshotLines(content) ==
    IF FromStrOk(content) /\ AsStr(Index(content, "haiku_content")).some
    THEN Some(Split(AsStr(Index(content, "haiku_content")).val))
    ELSE [some |-> FALSE, val |-> <<>>]

\* `if lines.len() >= 3 { return lines; }`
PassThrough(content) ==
    SnapshotLines(content).some /\ Len(SnapshotLines(content).val) >= 3

HaikuIndex(m) == TableIndex(m.semantic_closure, Len(HaikuTable))

\* the pass-through cut to its first three lines
GenerateHaikuFirstThree(m, content) ==
    IF PassThrough(content) THEN SubSeq(SnapshotLines(content).val, 1, 3)
    ELSE HaikuTable[HaikuIndex(m) + 1]

\* generate_haiku(&metrics), given the content its own read returns
GenerateHaiku(m, content) ==
    IF PassThrough(content) THEN SnapshotLines(content).val
    ELSE IF HaikuIndex(m) + 1 \in DOMAIN HaikuTable
         THEN HaikuTable[HaikuIndex(m) + 1]
         ELSE Panic

\* the index taken from semantic_closure
MechanismIndexByClosure(m) == TableIndex(m.semantic_closure, Len(Mechanisms))

MechanismIndex(m) == TableIndex(m.correlation_strength, Len(Mechanisms))

SelectGenerationMechanism(m) ==
    IF MechanismIndex(m) + 1 \in DOMAIN Mechanisms
    THEN Mechanisms[MechanismIndex(m) + 1]
    ELSE "panic"

----------------------------------------------------------------------------
(* The environment: what the state file and the time source can hold *)

Strings(n) == UNION {[1..k -> Chars] : k \in 0..n}

\* two haiku_content strings: one of three lines, one of four
ThreeLines == <<"a", Sep, "LF", Sep, "a", "a">>
FourLines == <<"a", Sep, Sep, "a", Sep, "LF">>

PhiValues ==
    {JNull, JString(<<"a">>), JNegInt(0 - 1), JUInt(U64(1)), JUInt(U64(2))}
    \cup {JFloat(m) : m \in {0 - 7000, 500, 1000, 1001, 2000, 3252, 4000, 100000}}

EntropyValues == {JNull, JFloat(500)}

LoopLimbs == {<<a, b, c, 0>> : a \in {0, 1, 4, 65535}, b \in {0, 65535}, c \in {0, 1}}

LoopValues ==
    {JNull, JFloat(2000), JNegInt(0 - 3), JString(<<"a">>)}
    \cup {JUInt(v) : v \in LoopLimbs}

HaikuValues == {JNull, JFloat(5000)} \cup {JString(str) : str \in Strings(MaxHaikuLen)}

Unavailable == {MissingFile, UnreadableFile, Text("invalid")}
NonObjects == {Text("null"), Text("number"), Text("array")}

\* the contents an external producer may leave in the file
SmallContents ==
    {MissingFile, Text("invalid"), Text("null")}
    \cup {Object(phi, JNull, JNull, hk) :
            phi \in {JFloat(500), JFloat(4000)},
            hk \in {JNull, JString(ThreeLines), JString(FourLines)}}

WideContents ==
    Unavailable \cup NonObjects
    \cup {Object(phi, JNull, JNull, hk) :
            phi \in {JFloat(500), JFloat(4000)}, hk \in HaikuValues}
    \cup {Object(phi, qe, loop, JNull) :
            phi \in PhiValues, qe \in EntropyValues, loop \in {JNull, JUInt(U64(7))}}
    \cup {Object(phi, JNull, loop, JNull) :
            phi \in {JNull, JFloat(500)}, loop \in LoopValues}

\* |sin(x)| lies in [0, 1]; the hash behind get_current_timestamp is opaque
TimeFactor(i) == Milli((i * 1000) \div TimeSteps)
TimeFactors == {TimeFactor(i) : i \in 0..TimeSteps}
CoarseTimeFactors == {TimeFactor(0), TimeFactor(TimeSteps \div 2), TimeFactor(TimeSteps)}

ScriptNames == {"FULL_LOOP_ORACLE_SYSTEM.py", "ORACLE_PRINT_CORE.py",
                "button_quick_phrase_trigger.py"}

Request(method, path, body) == [method |-> method, path |-> path, body |-> body]
Requests ==
    {Request("GET", path, "empty") :
        path \in {"/api/information-dynamics/status",
                  "/api/information-dynamics/metrics", "/api/oracle/fortune", "/"}}
    \cup {Request("POST", "/api/information-dynamics/generate", body) :
            body \in {"empty", "json", "garbage"}}
    \cup {Request(method, "/", "empty") : method \in {"OPTIONS", "DELETE"}}

----------------------------------------------------------------------------
(* State *)

NoContent == [kind |-> "none", root |-> "none", fields |-> NoFields]
NoTriLoop == [mcp_active |-> FALSE, gemini_connected |-> FALSE,
              codex_generating |-> FALSE, correlation_detected |-> FALSE]
NoPrev == [valid |-> FALSE, content |-> NoContent, branch |-> "none",
           clock_read |-> FALSE, metrics |-> NoMetrics, mechanism |-> "none"]

Locals(p, h, st) ==
    /\ pc = p
    /\ handler = h
    /\ status = st
    /\ metrics = NoMetrics
    /\ branch = "none"
    /\ clock_read = FALSE
    /\ mContent = NoContent
    /\ tri_loop = NoTriLoop
    /\ haiku = <<>>
    /\ haiku_source = "none"
    /\ hContent = NoContent
    /\ hIndex = 0 - 1
    /\ mechanism = "none"
    /\ mIndex = 0 - 1

Init ==
    /\ file \in SmallContents
    /\ scripts \in {{}, ScriptNames}
    /\ time_factor \in CoarseTimeFactors
    /\ Locals("idle", "none", 0)
    /\ prev = NoPrev

\* one request at a time on a file that nobody rewrites
SeqInit ==
    /\ file \in WideContents
    /\ scripts = ScriptNames
    /\ time_factor \in TimeFactors
    /\ Locals("idle", "none", 0)
    /\ prev = NoPrev

----------------------------------------------------------------------------
(* The external producer of the state file *)

ProducerWrite ==
    /\ \E c \in SmallContents \ {MissingFile} : file' = c
    /\ file' # file
    /\ UNCHANGED <<scripts, time_factor, pc, handler, status, metrics, branch,
                   clock_read, mContent, tri_loop, haiku, haiku_source,
                   hContent, hIndex, mechanism, mIndex, prev>>

ProducerRemove ==
    /\ file # MissingFile
    /\ file' = MissingFile
    /\ UNCHANGED <<scripts, time_factor, pc, handler, status, metrics, branch,
                   clock_read, mContent, tri_loop, haiku, haiku_source,
                   hContent, hIndex, mechanism, mIndex, prev>>

----------------------------------------------------------------------------
(* handle_oracle and the handlers it dispatches to *)

\* handle_oracle, handle_oracle_request, handle_generation: the endpoint
Route(req) ==
    CASE req.method = "GET" /\ req.path = "/api/information-dynamics/status" -> "status"
      [] req.method = "GET" /\ req.path = "/api/information-dynamics/metrics" -> "metrics"
      [] req.method = "GET" /\ req.path = "/api/oracle/fortune" -> "fortune"
      [] req.method = "GET" -> "interface"
      [] req.method = "POST" /\ req.body # "garbage" -> "fortune"
      [] req.method = "POST" /\ req.body = "garbage" -> "bad_params"
      [] req.method = "OPTIONS" -> "cors"
      [] OTHER -> "not_allowed"

RouteStatus(h) ==
    CASE h = "interface" -> 200
      [] h = "cors" -> 200
      [] h = "bad_params" -> 500
      [] h = "not_allowed" -> 405
      [] OTHER -> 0

\* what the finished request leaves for comparison with the next one
Remember ==
    IF branch = "none" THEN prev
    ELSE [valid |-> TRUE, content |-> mContent, branch |-> branch,
          clock_read |-> clock_read, metrics |-> metrics,
          mechanism |-> mechanism]

Receive(req) ==
    /\ pc \in {"idle", "done"}
    /\ prev' = Remember
    /\ handler' = Route(req)
    /\ status' = RouteStatus(Route(req))
    /\ pc' = IF Route(req) \in {"status", "metrics", "fortune"}
             THEN "metrics" ELSE "done"
    /\ metrics' = NoMetrics
    /\ branch' = "none"
    /\ clock_read' = FALSE
    /\ mContent' = NoContent
    /\ tri_loop' = NoTriLoop
    /\ haiku' = <<>>
    /\ haiku_source' = "none"
    /\ hContent' = NoContent
    /\ hIndex' = 0 - 1
    /\ mechanism' = "none"
    /\ mIndex' = 0 - 1
    /\ UNCHANGED <<file, scripts, time_factor>>

\* `calculate_metrics()`, the first call of all three handlers
CalculateStep ==
    /\ pc = "metrics"
    /\ mContent' = file
    /\ metrics' = CalculateMetrics(file, time_factor)
    /\ branch' = MetricsBranch(file)
    /\ clock_read' = TimeSourceConsulted(file)
    /\ pc' = IF handler = "metrics" THEN "done" ELSE "assess"
    /\ status' = IF handler = "metrics" THEN 200 ELSE status
    /\ UNCHANGED <<file, scripts, time_factor, handler, tri_loop, haiku,
                   haiku_source, hContent, hIndex, mechanism, mIndex, prev>>

\* `assess_tri_loop_system()`; whether the file changed within the last
\* five minutes is the environment's choice
AssessTriLoopSystem(recent) ==
    [mcp_active |-> "FULL_LOOP_ORACLE_SYSTEM.py" \in scripts,
     gemini_connected |-> "ORACLE_PRINT_CORE.py" \in scripts,
     codex_generating |-> "button_quick_phrase_trigger.py" \in scripts,
     correlation_detected |-> file.kind # "missing" /\ recent]

AssessStep ==
    /\ pc = "assess"
    /\ \E recent \in (IF file.kind = "missing" THEN {FALSE} ELSE BOOLEAN) :
           tri_loop' = AssessTriLoopSystem(recent)
    /\ pc' = IF handler = "status" THEN "done" ELSE "haiku"
    /\ status' = IF handler = "status" THEN 200 ELSE status
    /\ UNCHANGED <<file, scripts, time_factor, handler, metrics, branch,
                   clock_read, mContent, haiku, haiku_source, hContent,
                   hIndex, mechanism, mIndex, prev>>

\* `let haiku = if threshold_exceeded { generate_haiku(..) } else
\* { generate_standard_haiku() }`; an index out of bounds panics
HaikuStep ==
    /\ pc = "haiku"
    /\ IF metrics.threshold_exceeded
       THEN /\ hContent' = file
            /\ haiku' = GenerateHaiku(metrics, file)
            /\ haiku_source' = IF PassThrough(file) THEN "snapshot" ELSE "table"
            /\ hIndex' = IF PassThrough(file) THEN hIndex ELSE HaikuIndex(metrics)
       ELSE /\ hContent' = hContent
            /\ haiku' = StandardHaiku
            /\ haiku_source' = "standard"
            /\ hIndex' = hIndex
    /\ pc' = IF haiku' = Panic THEN "done" ELSE "respond"
    /\ status' = IF haiku' = Panic THEN 500 ELSE status
    /\ UNCHANGED <<file, scripts, time_factor, handler, metrics, branch,
                   clock_read, mContent, tri_loop, mechanism, mIndex, prev>>

\* `select_generation_mechanism(..)` and the response
RespondStep ==
    /\ pc = "respond"
    /\ mechanism' = SelectGenerationMechanism(metrics)
    /\ mIndex' = MechanismIndex(metrics)
    /\ status' = IF mechanism' = "panic" THEN 500 ELSE 200
    /\ pc' = "done"
    /\ UNCHANGED <<file, scripts, time_factor, handler, metrics, branch,
                   clock_read, mContent, tri_loop, haiku, haiku_source,
                   hContent, hIndex, prev>>

Serve ==
    \/ \E req \in Requests : Receive(req)
    \/ CalculateStep
    \/ AssessStep
    \/ HaikuStep
    \/ RespondStep

Next == ProducerWrite \/ ProducerRemove \/ Serve

Spec == Init /\ [][Next]_vars

SeqSpec == SeqInit /\ [][Serve]_vars

----------------------------------------------------------------------------
(* The two selectors on arbitrary metrics records *)

SelValues == {k * (One \div 8) : k \in (0 - SelSpan)..(SelSpan + 16)}

SelMetrics ==
    {Metrics(sc, 3, Milli(1084), Milli(9260), corr, exceeded) :
        sc \in SelValues, corr \in SelValues, exceeded \in BOOLEAN}

SelInit ==
    /\ file \in {MissingFile, Object(JNull, JNull, JNull, JString(ThreeLines))}
    /\ scripts = ScriptNames
    /\ time_factor = TimeFactor(0)
    /\ pc = "haiku"
    /\ handler = "fortune"
    /\ status = 0
    /\ metrics \in SelMetrics
    /\ branch = "none"
    /\ clock_read = FALSE
    /\ mContent = NoContent
    /\ tri_loop = NoTriLoop
    /\ haiku = <<>>
    /\ haiku_source = "none"
    /\ hContent = NoContent
    /\ hIndex = 0 - 1
    /\ mechanism = "none"
    /\ mIndex = 0 - 1
    /\ prev = NoPrev

Select == HaikuStep \/ RespondStep

SelSpec == SelInit /\ [][Select]_vars

----------------------------------------------------------------------------
(* Properties *)

FortuneServed == handler = "fortune" /\ pc = "done"
HaikuChosen == handler = "fortune" /\ pc \in {"respond", "done"}
MetricsDerived == branch # "none"

\* the lines, put back together with the separator between them
RECURSIVE Join(_)
Join(lines) ==
    IF Len(lines) = 0 THEN <<>>
    ELSE IF Len(lines) = 1 THEN lines[1]
    ELSE lines[1] \o <<Sep>> \o Join(Tail(lines))

NumSeps(str) == Cardinality({i \in 1..Len(str) : str[i] = Sep})

\* the content holds a haiku_content string with at least two separators,
\* that is, one that splits into at least three lines
SuppliesHaiku(content) ==
    /\ content.kind = "text"
    /\ content.root = "object"
    /\ content.fields.haiku_content.t = "string"
    /\ NumSeps(content.fields.haiku_content.s) >= 2

\* haiku is exactly the lines of the content's haiku_content
Verbatim(content) ==
    /\ Len(haiku) = NumSeps(content.fields.haiku_content.s) + 1
    /\ \A i \in 1..Len(haiku) : \A j \in 1..Len(haiku[i]) : haiku[i][j] # Sep
    /\ Join(haiku) = content.fields.haiku_content.s

PhiUsed(content) ==
    IF content.root = "object"
       /\ content.fields.phi.t \in {"float", "negint", "uint"}
    THEN AsF64(content.fields.phi).val
    ELSE Milli(3252)

Unparseable(content) == content.kind # "text" \/ content.root = "invalid"

C3_StrangeLoopCount ==
    (branch = "snapshot" /\ Index(mContent, "loop_iteration").t = "uint")
        => /\ metrics.strange_loops
                 = LimbsMod(Index(mContent, "loop_iteration").u, 5) + 3
           /\ metrics.strange_loops \in 3..7

\* C4: in the snapshot branch threshold_exceeded is true exactly when the
\* phi used (the field, or 3.252 when it is absent or no number) is
\* strictly above 1.0, whatever the other fields hold.
C4_Threshold ==
    branch = "snapshot"
        => (metrics.threshold_exceeded <=> PhiUsed(mContent) > One)

C4_Witness ==
    /\ branch = "snapshot"
    /\ PhiUsed(mContent) = One
    /\ ~metrics.threshold_exceeded
    /\ Index(mContent, "quantum_entropy").t = "float"
    /\ Index(mContent, "loop_iteration").t = "uint"

\* C5: the haiku of a fortune always has exactly 3 lines.
C5_ThreeLines == FortuneServed => Len(haiku) = 3

\* C6: for every semantic_closure and correlation_strength, above 1 and
\* below 0 included, the haiku index lies in 0..3 and the mechanism index
\* in 0..4, so no lookup is out of range and no selector call fails.
C6_SelectorsTotal ==
    /\ haiku_source = "table"
          => /\ hIndex \in 0..3
             /\ \E i \in DOMAIN HaikuTable : haiku = HaikuTable[i]
    /\ pc = "done"
          => /\ status = 200
             /\ mIndex \in 0..4
             /\ \E i \in DOMAIN Mechanisms : mechanism = Mechanisms[i]

C6_Witness ==
    /\ pc = "done"
    /\ haiku_source = "table"
    /\ metrics.semantic_closure = 3 * One
    /\ metrics.correlation_strength < 0

C8_MechanismByCorrelation ==
    FortuneServed =>
        /\ (prev.mechanism # "none"
            /\ prev.metrics.correlation_strength = metrics.correlation_strength)
              => mechanism = prev.mechanism
        /\ metrics.correlation_strength = Milli(980)
              => mechanism = "strange loop paradox resolution synthesis"

C8_Witness ==
    /\ FortuneServed
    /\ prev.mechanism # "none"
    /\ prev.metrics.correlation_strength = metrics.correlation_strength
    /\ prev.metrics.semantic_closure # metrics.semantic_closure
    /\ prev.metrics.threshold_exceeded # metrics.threshold_exceeded
    /\ branch = "snapshot"

\* C9: every fallback record has semantic_closure in [0.885, 0.985],
\* strange_loops in 3..5, hofstadter_coefficient in [1.02, 1.12],
\* spectral_gap in [5.26, 7.26], correlation_strength in [0.95, 1.0] and
\* threshold_exceeded true.
C9_FallbackRanges ==
    branch = "fallback" =>
        /\ Milli(885) <= metrics.semantic_closure
        /\ metrics.semantic_closure <= Milli(985)
        /\ metrics.strange_loops \in 3..5
        /\ Milli(1020) <= metrics.hofstadter_coefficient
        /\ metrics.hofstadter_coefficient <= Milli(1120)
        /\ Milli(5260) <= metrics.spectral_gap
        /\ metrics.spectral_gap <= Milli(7260)
        /\ Milli(950) <= metrics.correlation_strength
        /\ metrics.correlation_strength <= One
        /\ metrics.threshold_exceeded

C9_Witness ==
    /\ branch = "fallback"
    /\ time_factor = One
    /\ metrics.semantic_closure = Milli(985)
    /\ metrics.strange_loops = 4

\* C10: the metrics and the haiku of one fortune come from the same version
\* of the state file: a haiku taken from the file is never combined with
\* metrics computed from a different content.
C10_SameVersion ==
    (FortuneServed /\ haiku_source = "snapshot") => hContent = mContent

====
